---------------------------- MODULE Spec2Model ----------------------------
(***************************************************************************)
(* Three express routers of the wellness backend, src/unnamed/part_001:    *)
(* the gamification engine (streaks, badges, points, leaderboard,          *)
(* redemption; lines 1-424), the expert consultations (lines 425-889) and  *)
(* the forum (lines 1401-1938).  Every route handler is synchronous, so    *)
(* one handler is one atomic step.  The gamification router's wall clock   *)
(* is the variable `today` (the ordinal of the calendar day                *)
(* moment().format('YYYY-MM-DD') names); a handler reads one value of it.  *)
(* uuid ids, metrics and timestamps are left out of the gamification       *)
(* records: no handler reads them back.                                    *)
(***************************************************************************)
EXTENDS Integers, Sequences, FiniteSets, TLC

VARIABLES today, userStreaks, userBadges, rewardHistory, dailyHabits,
          request, response,
          now, experts, appointments, consultations,
          forumCategories, forumPosts, forumComments, userProfiles

vars == <<today, userStreaks, userBadges, rewardHistory, dailyHabits,
          request, response,
          now, experts, appointments, consultations,
          forumCategories, forumPosts, forumComments, userProfiles>>

stores == <<userStreaks, userBadges, rewardHistory, dailyHabits>>

\* The expert-consultation router (lines 425-889) keeps its own arrays;
\* `now` is its wall clock (new Date()), in hours since 2024-01-01T00:00Z.
\* Its message routes touch only `messages`, which no other handler reads,
\* and are left out.
consultStores == <<experts, appointments, consultations>>
consultVars == <<now, experts, appointments, consultations>>

\* The forum router (lines 1401-1938) and its arrays.
forumVars == <<forumCategories, forumPosts, forumComments, userProfiles>>

(***************************************************************************)
(* Bounds of the exploration.                                              *)
(***************************************************************************)
MaxDay == 2
MaxLogs == 2
StreakDays == 7
NutritionDays == 4
BoardDays == 2
BoardLogs == 3
RewardDays == 5
RewardRedemptions == 1
FortnightDays == 14
PointsDays == 2
PointsLogs == 2
ConsultHours == 24
ConsultAppointments == 3
ForumRecords == 4
ForumReactions == 1
RankingDays == 4
ProgressLogs == 6

(***************************************************************************)
(* JavaScript values.  A number-valued slot holds a natural number, NaN or *)
(* undefined; the two non-numbers are encoded as negative integers.        *)
(***************************************************************************)
NaN == -1
Undefined == -2

IsNumber(v) == v >= 0

\* a + b on numbers: NaN as soon as one operand is not a number
JsAdd(a, b) == IF IsNumber(a) /\ IsNumber(b) THEN a + b ELSE NaN

\* a > b, a >= b: false as soon as one operand converts to NaN
JsGt(a, b) == IsNumber(a) /\ IsNumber(b) /\ a > b
JsGe(a, b) == IsNumber(a) /\ IsNumber(b) /\ a >= b

\* v || 0
OrZero(v) == IF IsNumber(v) /\ v # 0 THEN v ELSE 0

\* The request field `completed`: true, false, or absent from the body.
CompletedValues == {"true", "false", "undefined"}

\* completed !== false
NotStrictlyFalse(completed) == completed # "false"

\* the truthiness of `completed`
Truthy(completed) == completed = "true"

(***************************************************************************)
(* A JavaScript object with string keys is the sequence of its entries in  *)
(* insertion order (the order Object.entries yields for non-index keys).   *)
(***************************************************************************)
ObjHas(obj, key) == \E i \in 1..Len(obj) : obj[i].key = key

ObjGet(obj, key) ==
    IF ObjHas(obj, key)
    THEN obj[CHOOSE i \in 1..Len(obj) : obj[i].key = key].value
    ELSE Undefined

ObjSet(obj, key, value) ==
    IF ObjHas(obj, key)
    THEN [i \in 1..Len(obj) |->
             IF obj[i].key = key THEN [key |-> key, value |-> value] ELSE obj[i]]
    ELSE Append(obj, [key |-> key, value |-> value])

\* Array.prototype.find as an index: the first position satisfying Test, 0 if none
FirstIndex(seq, Test(_)) ==
    IF \E i \in 1..Len(seq) : Test(seq[i])
    THEN CHOOSE i \in 1..Len(seq) :
             Test(seq[i]) /\ \A j \in 1..(i - 1) : ~Test(seq[j])
    ELSE 0

(***************************************************************************)
(* The badge catalog.                                                      *)
(***************************************************************************)
BADGES == <<
    << [id |-> "7-day-streak", points |-> 50],
       [id |-> "30-day-streak", points |-> 200],
       [id |-> "90-day-streak", points |-> 500] >>,
    << [id |-> "healthy-eating", points |-> 75],
       [id |-> "supplement-consistency", points |-> 100],
       [id |-> "hydration", points |-> 60] >>,
    << [id |-> "workout-consistency", points |-> 80],
       [id |-> "step-master", points |-> 70],
       [id |-> "active-lifestyle", points |-> 150] >>,
    << [id |-> "first-week", points |-> 25],
       [id |-> "first-month", points |-> 100],
       [id |-> "weight-goal", points |-> 200] >> >>

\* The catalog point value of a badge id (0 for an id the catalog lacks).
CatalogPoints(badgeId) ==
    IF \E c \in 1..Len(BADGES) : \E i \in 1..Len(BADGES[c]) : BADGES[c][i].id = badgeId
    THEN LET c == CHOOSE c \in 1..Len(BADGES) :
                      \E i \in 1..Len(BADGES[c]) : BADGES[c][i].id = badgeId
             i == CHOOSE i \in 1..Len(BADGES[c]) : BADGES[c][i].id = badgeId
         IN  BADGES[c][i].points
    ELSE 0


(***************************************************************************)
(* awardBadge's catalog lookup, evaluated as JavaScript evaluates it.      *)
(* A looked-up value is a string, a badge definition or undefined.         *)
(***************************************************************************)
JsUndefined == [t |-> "undefined"]
JsString(s) == [t |-> "string", s |-> s]
JsBadge(points) == [t |-> "object", points |-> points]

JsTruthy(v) == v.t = "object" \/ (v.t = "string" /\ v.s # "")

\* The character at index 1 of a badge id ("" when the id is shorter).
SecondChar(s) ==
    CASE s = "7-day-streak" -> "-"
      [] s = "30-day-streak" -> "0"
      [] s = "90-day-streak" -> "0"
      [] s = "healthy-eating" -> "e"
      [] s = "supplement-consistency" -> "u"
      [] s = "hydration" -> "y"
      [] s = "workout-consistency" -> "o"
      [] s = "step-master" -> "t"
      [] s = "active-lifestyle" -> "c"
      [] s = "first-week" -> "i"
      [] s = "first-month" -> "i"
      [] s = "weight-goal" -> "e"
      [] OTHER -> ""

\* value?.[1]
IndexOne(v) ==
    IF v.t = "string" /\ SecondChar(v.s) # ""
    THEN JsString(SecondChar(v.s))
    ELSE JsUndefined

\* value.points
PointsOf(v) == IF v.t = "object" THEN v.points ELSE Undefined

\* What one category contributes to the flatMap: the callback returns the
\* found entry, the array [id, badge], which flatMap splices into the result
\* as two elements, or undefined, which flatMap keeps as one element.
CategoryEntry(category, badgeId) ==
    LET i == FirstIndex(category, LAMBDA e : e.id = badgeId)
    IN  IF i = 0
        THEN <<JsUndefined>>
        ELSE <<JsString(category[i].id), JsBadge(category[i].points)>>

RECURSIVE FlatMapCategories(_, _)
FlatMapCategories(categories, badgeId) ==
    IF categories = <<>> THEN <<>>
    ELSE CategoryEntry(Head(categories), badgeId)
             \o FlatMapCategories(Tail(categories), badgeId)

\* Object.values(BADGES).flatMap(...).find(b => b)?.[1]
LookupBadge(badgeId) ==
    LET flat == FlatMapCategories(BADGES, badgeId)
        i == FirstIndex(flat, JsTruthy)
    IN  IF i = 0 THEN JsUndefined ELSE IndexOne(flat[i])

Null == [t |-> "null"]

\* awardBadge: the UserBadge pushed to userBadges and returned, or null.
awardBadge(userId, badgeId) ==
    LET badge == LookupBadge(badgeId)
    IN  IF ~JsTruthy(badge)
        THEN Null
        ELSE [userId |-> userId, badgeId |-> badgeId, points |-> PointsOf(badge)]

(***************************************************************************)
(* Streaks.                                                                *)
(***************************************************************************)
InitialCounters ==
    << [key |-> "nutrition", value |-> 0],
       [key |-> "fitness", value |-> 0],
       [key |-> "supplements", value |-> 0],
       [key |-> "hydration", value |-> 0],
       [key |-> "sleep", value |-> 0] >>

\* initializeUserStreak: the record pushed to userStreaks
initializeUserStreak(userId) ==
    [userId |-> userId, streaks |-> InitialCounters, longestStreaks |-> InitialCounters]

\* userStreaks.find(streak => streak.userId === userId), as an index
\* The lookup that takes the first record, whoever its user is.
FindStreakFirst(us, userId) == IF us = <<>> THEN 0 ELSE 1

FindStreak(us, userId) == FirstIndex(us, LAMBDA s : s.userId = userId)

\* The duplicate check with the date compared one day off.
existingLogOffByOne(dh, userId, activityType, day) ==
    FirstIndex(dh, LAMBDA log : /\ log.userId = userId
                                /\ log.activityType = activityType
                                /\ log.date = day + 1)

\* The duplicate check without the comparison of the activity type.
existingLogAnyType(dh, userId, activityType, day) ==
    FirstIndex(dh, LAMBDA log : /\ log.userId = userId
                                /\ log.date = day)

\* The duplicate check of the log-activity handler:
\* dailyHabits.find(log => userId, activityType and date === today), as an index
existingLog(dh, userId, activityType, day) ==
    FirstIndex(dh, LAMBDA log : /\ log.userId = userId
                                /\ log.activityType = activityType
                                /\ log.date = day)

\* The lookup with the date one more day back.
yesterdayActivityTwoDaysBack(dh, userId, activityType, yesterday) ==
    FirstIndex(dh, LAMBDA log : /\ log.userId = userId
                                /\ log.activityType = activityType
                                /\ log.date = yesterday - 1)

\* The lookup without its date test: the oldest log of the user and type.
yesterdayActivityAnyDate(dh, userId, activityType, yesterday) ==
    FirstIndex(dh, LAMBDA log : /\ log.userId = userId
                                /\ log.activityType = activityType
                                /\ log.date <= yesterday)

\* updateStreak's lookup of yesterday's log of the same user and type, as an index
yesterdayActivity(dh, userId, activityType, yesterday) ==
    FirstIndex(dh, LAMBDA log : /\ log.userId = userId
                                /\ log.activityType = activityType
                                /\ log.date = yesterday)

\* updateStreak(userId, activityType, completed) on the day `day`:
\* the new userStreaks and the returned streakUpdate.
updateStreak(us, dh, day, userId, activityType, completed) ==
    LET us1 == IF FindStreak(us, userId) = 0
               THEN Append(us, initializeUserStreak(userId))
               ELSE us
        idx == FindStreak(us1, userId)
        userStreak == us1[idx]
        yesterday == day - 1
        y == yesterdayActivity(dh, userId, activityType, yesterday)
        streaks1 ==
            IF completed
            THEN IF y # 0 /\ dh[y].completed
                 THEN ObjSet(userStreak.streaks, activityType,
                             JsAdd(ObjGet(userStreak.streaks, activityType), 1))
                 ELSE ObjSet(userStreak.streaks, activityType, 1)
            ELSE ObjSet(userStreak.streaks, activityType, 0)
        longest1 ==
            IF completed /\ JsGt(ObjGet(streaks1, activityType),
                                 ObjGet(userStreak.longestStreaks, activityType))
            THEN ObjSet(userStreak.longestStreaks, activityType,
                        ObjGet(streaks1, activityType))
            ELSE userStreak.longestStreaks
    IN  [userStreaks |-> [us1 EXCEPT ![idx] = [userId |-> userId,
                                               streaks |-> streaks1,
                                               longestStreaks |-> longest1]],
         streakUpdate |-> [activityType |-> activityType,
                           currentStreak |-> ObjGet(streaks1, activityType),
                           longestStreak |-> ObjGet(longest1, activityType)]]

(***************************************************************************)
(* Badges.                                                                 *)
(***************************************************************************)
\* The earned-badge test comparing the wrong property.
HasBadgeWrongField(badges, badgeId) == \E i \in 1..Len(badges) : badges[i].userId = badgeId

HasBadge(badges, badgeId) == \E i \in 1..Len(badges) : badges[i].badgeId = badgeId

\* The badge ids the forEach over Object.entries(userStreak.streaks) awards,
\* in order; `earned` is the list filtered before the loop.
RECURSIVE StreakBadgeIds(_, _)
StreakBadgeIds(entries, earned) ==
    IF entries = <<>> THEN <<>>
    ELSE LET streak == Head(entries).value
         IN  (IF JsGe(streak, 7) /\ ~HasBadge(earned, "7-day-streak")
              THEN <<"7-day-streak">> ELSE <<>>)
             \o (IF JsGe(streak, 30) /\ ~HasBadge(earned, "30-day-streak")
                 THEN <<"30-day-streak">> ELSE <<>>)
             \o StreakBadgeIds(Tail(entries), earned)

NutritionTypes == {"healthy-eating", "supplement-consistency"}

\* The badge ids the nutrition check awards.
NutritionBadgeIds(dh, userId) ==
    LET nutritionActivities ==
            SelectSeq(dh, LAMBDA log : log.userId = userId
                                       /\ log.activityType \in NutritionTypes)
    IN  IF Len(nutritionActivities) >= 7 THEN <<"healthy-eating">> ELSE <<>>

\* checkForNewBadges(userId): the new userBadges and the returned newBadges.
checkForNewBadges(us, ub, dh, userId) ==
    LET userStreak == us[FindStreak(us, userId)]
        earnedBadges == SelectSeq(ub, LAMBDA badge : badge.userId = userId)
        ids == StreakBadgeIds(userStreak.streaks, earnedBadges)
                   \o NutritionBadgeIds(dh, userId)
        newBadges == [i \in 1..Len(ids) |-> awardBadge(userId, ids[i])]
    IN  [userBadges |-> ub \o SelectSeq(newBadges, LAMBDA b : b # Null),
         newBadges |-> newBadges]

(***************************************************************************)
(* Points.                                                                 *)
(***************************************************************************)
DefaultPoints == 5

\* The table with the values of hydration and sleep exchanged.
PointsTableExchanged(activityType) ==
    CASE activityType = "healthy-eating" -> 10
      [] activityType = "supplement-consistency" -> 15
      [] activityType = "workout" -> 20
      [] activityType = "hydration" -> 8
      [] activityType = "sleep" -> 5
      [] activityType = "meditation" -> 12
      [] OTHER -> Undefined

\* points[activityType], undefined for a type the table lacks
PointsTable(activityType) ==
    CASE activityType = "healthy-eating" -> 10
      [] activityType = "supplement-consistency" -> 15
      [] activityType = "workout" -> 20
      [] activityType = "hydration" -> 5
      [] activityType = "sleep" -> 8
      [] activityType = "meditation" -> 12
      [] OTHER -> Undefined

\* awardPoints without its first line, the return of 0 for a log that is
\* not a completion.
awardPointsAlways(rh, userId, activityType, completed) ==
    LET pointsEarned == IF OrZero(PointsTable(activityType)) # 0
                        THEN PointsTable(activityType)
                        ELSE DefaultPoints
    IN  [rewardHistory |-> Append(rh, [userId |-> userId,
                                       activityType |-> activityType,
                                       points |-> pointsEarned]),
         pointsAwarded |-> pointsEarned]

\* The award that assigns the ledger instead of pushing to it.
awardPointsOverwriting(rh, userId, activityType, completed) ==
    IF ~Truthy(completed)
    THEN [rewardHistory |-> rh, pointsAwarded |-> 0]
    ELSE LET pointsEarned == IF OrZero(PointsTable(activityType)) # 0
                             THEN PointsTable(activityType)
                             ELSE DefaultPoints
         IN  [rewardHistory |-> <<[userId |-> userId,
                                   activityType |-> activityType,
                                   points |-> pointsEarned]>>,
              pointsAwarded |-> pointsEarned]

\* awardPoints(userId, activityType, completed): `completed` is the raw
\* request field.  The new rewardHistory and the returned points.
awardPoints(rh, userId, activityType, completed) ==
    IF ~Truthy(completed)
    THEN [rewardHistory |-> rh, pointsAwarded |-> 0]
    ELSE LET pointsEarned == IF OrZero(PointsTable(activityType)) # 0
                             THEN PointsTable(activityType)
                             ELSE DefaultPoints
         IN  [rewardHistory |-> Append(rh, [userId |-> userId,
                                            activityType |-> activityType,
                                            points |-> pointsEarned]),
              pointsAwarded |-> pointsEarned]

\* calculateTotalPoints(userId)
RECURSIVE SumPoints(_)
SumPoints(entries) ==
    IF entries = <<>> THEN 0
    ELSE JsAdd(OrZero(Head(entries).points), SumPoints(Tail(entries)))

calculateTotalPoints(rh, userId) ==
    SumPoints(SelectSeq(rh, LAMBDA reward : reward.userId = userId))

(***************************************************************************)
(* Leaderboard.                                                            *)
(***************************************************************************)
\* The array index a property key denotes, -1 for a key that is not one.
\* Object.entries lists array-index keys first, in ascending numeric order.
ArrayIndex(key) ==
    CASE key = "2" -> 2
      [] key = "10" -> 10
      [] OTHER -> -1

\* The forEach over rewardHistory: userPoints after the entries of rh, as
\* the object's entries in insertion order.
RECURSIVE userPoints(_)
userPoints(rh) ==
    IF rh = <<>> THEN <<>>
    ELSE LET before == userPoints(SubSeq(rh, 1, Len(rh) - 1))
             reward == rh[Len(rh)]
             zeroed == IF OrZero(ObjGet(before, reward.userId)) = 0
                       THEN ObjSet(before, reward.userId, 0)
                       ELSE before
         IN  ObjSet(zeroed, reward.userId,
                    JsAdd(ObjGet(zeroed, reward.userId), OrZero(reward.points)))

\* The array-index keys of `keys` in ascending numeric order.
RECURSIVE IndexKeysAscending(_)
IndexKeysAscending(keys) ==
    IF keys = {} THEN <<>>
    ELSE LET k == CHOOSE k \in keys : \A o \in keys : ArrayIndex(k) <= ArrayIndex(o)
         IN  <<k>> \o IndexKeysAscending(keys \ {k})

\* Object.entries(obj): array-index keys first, ascending, then the other
\* keys in insertion order.
ObjectEntries(obj) ==
    LET indexKeys == {obj[i].key : i \in {j \in 1..Len(obj) : ArrayIndex(obj[j].key) >= 0}}
        first == IndexKeysAscending(indexKeys)
    IN  [i \in 1..Len(first) |-> [userId |-> first[i], points |-> ObjGet(obj, first[i])]]
        \o [i \in 1..Len(SelectSeq(obj, LAMBDA e : ArrayIndex(e.key) < 0)) |->
               [userId |-> SelectSeq(obj, LAMBDA e : ArrayIndex(e.key) < 0)[i].key,
                points |-> SelectSeq(obj, LAMBDA e : ArrayIndex(e.key) < 0)[i].value]]

\* The comparator with its operands exchanged, a - b.
KeepsBeforeAscending(x, y) == x.points - y.points <= 0

\* The comparator ([,a], [,b]) => b - a: negative or zero keeps x before y.
KeepsBefore(x, y) == y.points - x.points <= 0

\* Array.prototype.sort with that comparator (the sort is stable).
RECURSIVE InsertSorted(_, _)
InsertSorted(sorted, e) ==
    IF sorted = <<>> THEN <<e>>
    ELSE IF KeepsBefore(sorted[Len(sorted)], e)
         THEN Append(sorted, e)
         ELSE Append(InsertSorted(SubSeq(sorted, 1, Len(sorted) - 1), e),
                     sorted[Len(sorted)])

RECURSIVE SortEntries(_)
SortEntries(entries) ==
    IF entries = <<>> THEN <<>>
    ELSE InsertSorted(SortEntries(SubSeq(entries, 1, Len(entries) - 1)),
                      entries[Len(entries)])

\* The slice that keeps one entry more than the limit.
SliceToInclusive(seq, limit) ==
    IF ~IsNumber(limit) THEN <<>>
    ELSE SubSeq(seq, 1, IF limit + 1 < Len(seq) THEN limit + 1 ELSE Len(seq))

\* slice(0, limit) for a limit that is a natural number or NaN
SliceTo(seq, limit) ==
    IF ~IsNumber(limit) THEN <<>>
    ELSE SubSeq(seq, 1, IF limit < Len(seq) THEN limit ELSE Len(seq))

\* generateLeaderboard(type, limit); `type` is not read.
generateLeaderboard(rh, ub, limit) ==
    LET top == SliceTo(SortEntries(ObjectEntries(userPoints(rh))), limit)
    IN  [index \in 1..Len(top) |->
            [rank |-> index,
             userId |-> top[index].userId,
             points |-> top[index].points,
             badges |-> Len(SelectSeq(ub, LAMBDA badge : badge.userId = top[index].userId))]]

\* calculateTodayProgress(todayActivities)
calculateTodayProgress(todayActivities) ==
    LET completedActivities ==
            Len(SelectSeq(todayActivities, LAMBDA activity : activity.completed))
    IN  [completed |-> completedActivities,
         total |-> 5,
         percentage |-> completedActivities * 20]

\* The weekday of day 1, counted from Sunday = 0: day 1 is a Monday.
WeekdayOfDayOne == 1

\* moment().startOf('week'): the Sunday on or before `day` (the default
\* locale's week starts on Sunday).
weekStart(day) == day - ((day - 1 + WeekdayOfDayOne) % 7)

\* calculateWeeklyProgress(userId) on the day `day`; Math.round of a
\* non-negative quotient rounds half up.
calculateWeeklyProgress(dh, day, userId) ==
    LET weekActivities ==
            SelectSeq(dh, LAMBDA log : log.userId = userId /\ log.date >= weekStart(day))
        completedCount ==
            Len(SelectSeq(weekActivities, LAMBDA activity : activity.completed))
        totalPossible == 5 * 7
    IN  [completed |-> completedCount,
         total |-> totalPossible,
         percentage |-> (2 * completedCount * 100 + totalPossible) \div (2 * totalPossible)]

(***************************************************************************)
(* The state machine.                                                      *)
(***************************************************************************)
\* forumCategories as the module creates it: id and postCount of the six
\* categories.
InitialCategories ==
    << [id |-> "general", postCount |-> 0],
       [id |-> "nutrition", postCount |-> 0],
       [id |-> "fitness", postCount |-> 0],
       [id |-> "supplements", postCount |-> 0],
       [id |-> "success-stories", postCount |-> 0],
       [id |-> "questions", postCount |-> 0] >>

NoRequest == [route |-> "none"]
NoResponse == [status |-> 0]

InternalError == [status |-> 500, error |-> "Internal server error"]

Init ==
    /\ today = 1
    /\ userStreaks = <<>>
    /\ userBadges = <<>>
    /\ rewardHistory = <<>>
    /\ dailyHabits = <<>>
    /\ request = NoRequest
    /\ response = NoResponse
    /\ now = 0
    /\ experts = <<>>
    /\ appointments = <<>>
    /\ consultations = <<>>
    /\ forumCategories = InitialCategories
    /\ forumPosts = <<>>
    /\ forumComments = <<>>
    /\ userProfiles = <<>>

\* The validation with the test of activityType left out.
MissingFieldsUserOnly(userId, activityType) == userId = ""

\* !userId || !activityType; "" stands for a missing (or empty) field
MissingFields(userId, activityType) == userId = "" \/ activityType = ""

\* POST /log-activity; "" stands for a missing (or empty) field
LogActivity(userId, activityType, completed) ==
    /\ request' = [route |-> "POST /log-activity", userId |-> userId,
                   activityType |-> activityType, completed |-> completed]
    /\ UNCHANGED <<today, consultVars, forumVars>>
    /\ IF MissingFields(userId, activityType)
       THEN /\ response' = [status |-> 400,
                            error |-> "Missing required fields: userId, activityType"]
            /\ UNCHANGED stores
       ELSE IF existingLog(dailyHabits, userId, activityType, today) # 0
       THEN /\ response' = [status |-> 400,
                            error |-> "Activity already logged for today"]
            /\ UNCHANGED stores
       ELSE LET activityLog == [userId |-> userId,
                                activityType |-> activityType,
                                date |-> today,
                                completed |-> NotStrictlyFalse(completed)]
                logged == Append(dailyHabits, activityLog)
                s == updateStreak(userStreaks, logged, today, userId,
                                  activityType, NotStrictlyFalse(completed))
                b == checkForNewBadges(s.userStreaks, userBadges, logged, userId)
                p == awardPoints(rewardHistory, userId, activityType, completed)
            IN  /\ dailyHabits' = logged
                /\ userStreaks' = s.userStreaks
                /\ userBadges' = b.userBadges
                /\ rewardHistory' = p.rewardHistory
                /\ response' = [status |-> 200,
                                message |-> "Activity logged successfully",
                                log |-> activityLog,
                                streakUpdate |-> s.streakUpdate,
                                newBadges |-> b.newBadges,
                                pointsAwarded |-> p.pointsAwarded]

\* GET /:userId/streaks
GetStreaks(userId) ==
    LET us1 == IF FindStreak(userStreaks, userId) = 0
               THEN Append(userStreaks, initializeUserStreak(userId))
               ELSE userStreaks
        userStreak == us1[FindStreak(us1, userId)]
        todayActivities ==
            SelectSeq(dailyHabits, LAMBDA log : log.userId = userId /\ log.date = today)
    IN  /\ request' = [route |-> "GET /:userId/streaks", userId |-> userId]
        /\ userStreaks' = us1
        /\ response' = [status |-> 200,
                        userId |-> userId,
                        currentStreaks |-> userStreak.streaks,
                        longestStreaks |-> userStreak.longestStreaks,
                        todayProgress |-> calculateTodayProgress(todayActivities),
                        weeklyProgress |-> calculateWeeklyProgress(dailyHabits, today, userId)]
        /\ UNCHANGED <<today, userBadges, rewardHistory, dailyHabits, consultVars, forumVars>>

\* GET /:userId/badges: getAvailableBadges is not defined in the module, the
\* call throws a ReferenceError and the catch block answers.
GetBadges(userId) ==
    /\ request' = [route |-> "GET /:userId/badges", userId |-> userId]
    /\ response' = InternalError
    /\ UNCHANGED <<today, stores, consultVars, forumVars>>

RedeemRoute == "POST /:userId/redeem"

\* The static reward catalog the redemption contract refers to.
RewardCatalog == {[id |-> "reward-1", pointsRequired |-> 100]}

\* POST /:userId/redeem: getRewardById is not defined in the module, the call
\* throws a ReferenceError after calculateTotalPoints and the catch block
\* answers; nothing after line 154 runs.
Redeem(userId, rewardId) ==
    /\ request' = [route |-> RedeemRoute, userId |-> userId,
                   rewardId |-> rewardId]
    /\ response' = InternalError
    /\ UNCHANGED <<today, stores, consultVars, forumVars>>

\* getRewardById as the redemption contract describes it: the reward of the
\* catalog with that id, as a set of at most one reward.
getRewardById(rewardId) == {reward \in RewardCatalog : reward.id = rewardId}

\* The redemption record pushed to rewardHistory (lines 168-176): it carries
\* pointsUsed and has no `points` and no `activityType` property.
Redemption(userId, reward) ==
    [userId |-> userId, activityType |-> "", points |-> Undefined,
     rewardId |-> reward.id, pointsUsed |-> reward.pointsRequired,
     status |-> "claimed"]

\* POST /:userId/redeem as it runs once getRewardById exists: lines 153-184.
RedeemWithCatalog(userId, rewardId) ==
    LET userPointsNow == calculateTotalPoints(rewardHistory, userId)
        found == getRewardById(rewardId)
    IN  /\ request' = [route |-> RedeemRoute, userId |-> userId,
                       rewardId |-> rewardId]
        /\ UNCHANGED <<today, userStreaks, userBadges, dailyHabits, consultVars, forumVars>>
        /\ IF found = {}
           THEN /\ response' = [status |-> 404, error |-> "Reward not found"]
                /\ UNCHANGED rewardHistory
           ELSE LET reward == CHOOSE r \in found : TRUE
                IN  IF userPointsNow < reward.pointsRequired
                    THEN /\ response' = [status |-> 400,
                                         error |-> "Insufficient points",
                                         required |-> reward.pointsRequired,
                                         current |-> userPointsNow]
                         /\ UNCHANGED rewardHistory
                    ELSE /\ rewardHistory' =
                                Append(rewardHistory, Redemption(userId, reward))
                         /\ response' =
                                [status |-> 200,
                                 message |-> "Reward redeemed successfully",
                                 redemption |-> Redemption(userId, reward),
                                 remainingPoints |-> userPointsNow - reward.pointsRequired]

\* GET /leaderboard?limit=...
Leaderboard(limit) ==
    /\ request' = [route |-> "GET /leaderboard", limit |-> limit]
    /\ response' = [status |-> 200,
                    leaderboard |-> generateLeaderboard(rewardHistory, userBadges, limit)]
    /\ UNCHANGED <<today, stores, consultVars, forumVars>>

\* Midnight passes: no request is handled.
AdvanceDay ==
    /\ today' = today + 1
    /\ request' = NoRequest
    /\ response' = NoResponse
    /\ UNCHANGED <<stores, consultVars, forumVars>>

(***************************************************************************)
(* Expert consultations: experts, appointments, cancellation.  uuid ids    *)
(* are the record's position in its array: fresh and never reused, since   *)
(* no record is removed.                                                   *)
(***************************************************************************)
\* The experts initializeExperts installs (the fields a handler reads).
SampleExperts ==
    << [id |-> "expert-1", name |-> "Dr. Sarah Chen", consultationFee |-> 99],
       [id |-> "expert-2", name |-> "Dr. Michael Rodriguez", consultationFee |-> 149],
       [id |-> "expert-3", name |-> "Emily Watson, RDN", consultationFee |-> 79] >>

\* initializeExperts(): the new value of `experts`.
initializeExperts(ex) == IF Len(ex) = 0 THEN SampleExperts ELSE ex

FindExpert(ex, expertId) == FirstIndex(ex, LAMBDA e : e.id = expertId)

\* new Date(slot) in hours since 2024-01-01T00:00Z, NaN for a string that
\* is not a date.
SlotHours(slot) ==
    CASE slot = "2024-01-02T09:00:00.000Z" -> 33
      [] slot = "2024-01-03T09:00:00.000Z" -> 57
      [] OTHER -> NaN

\* hoursUntilAppointment < 24 (a comparison with NaN is false)
TooLateToCancel(slot, clock) ==
    IsNumber(SlotHours(slot)) /\ SlotHours(slot) - clock < 24

\* The slot test that takes the cancelled appointments for the live ones.
conflictingAppointmentCancelled(apts, expertId, slot) ==
    FirstIndex(apts, LAMBDA apt : /\ apt.expertId = expertId
                                  /\ apt.slot = slot
                                  /\ apt.status = "cancelled")

\* The booking handler's search for an appointment holding the slot.
conflictingAppointment(apts, expertId, slot) ==
    FirstIndex(apts, LAMBDA apt : /\ apt.expertId = expertId
                                  /\ apt.slot = slot
                                  /\ apt.status # "cancelled")

\* GET /experts (the filters only shape the response)
ListExperts ==
    /\ request' = [route |-> "GET /experts"]
    /\ experts' = initializeExperts(experts)
    /\ response' = [status |-> 200, total |-> Len(initializeExperts(experts))]
    /\ UNCHANGED <<now, appointments, consultations, today, stores, forumVars>>

\* GET /experts/:expertId
ExpertDetails(expertId) ==
    /\ request' = [route |-> "GET /experts/:expertId", expertId |-> expertId]
    /\ experts' = initializeExperts(experts)
    /\ response' = IF FindExpert(initializeExperts(experts), expertId) = 0
                   THEN [status |-> 404, error |-> "Expert not found"]
                   ELSE [status |-> 200, expertId |-> expertId]
    /\ UNCHANGED <<now, appointments, consultations, today, stores, forumVars>>

BookRoute == "POST /appointments"

\* POST /appointments
BookAppointment(userId, expertId, slot) ==
    /\ request' = [route |-> BookRoute, userId |-> userId,
                   expertId |-> expertId, slot |-> slot]
    /\ UNCHANGED <<now, experts, today, stores, forumVars>>
    /\ IF userId = "" \/ expertId = "" \/ slot = ""
       THEN /\ response' = [status |-> 400,
                            error |-> "Missing required fields: userId, expertId, slot"]
            /\ UNCHANGED <<appointments, consultations>>
       ELSE IF FindExpert(experts, expertId) = 0
       THEN /\ response' = [status |-> 404, error |-> "Expert not found"]
            /\ UNCHANGED <<appointments, consultations>>
       ELSE IF conflictingAppointment(appointments, expertId, slot) # 0
       THEN /\ response' = [status |-> 400,
                            error |-> "Selected slot is no longer available"]
            /\ UNCHANGED <<appointments, consultations>>
       ELSE LET appointment == [id |-> Len(appointments) + 1,
                                userId |-> userId,
                                expertId |-> expertId,
                                expertName |-> experts[FindExpert(experts, expertId)].name,
                                slot |-> slot,
                                status |-> "confirmed"]
                consultation == [id |-> Len(consultations) + 1,
                                 appointmentId |-> appointment.id,
                                 userId |-> userId,
                                 expertId |-> expertId,
                                 status |-> "scheduled"]
            IN  /\ appointments' = Append(appointments, appointment)
                /\ consultations' = Append(consultations, consultation)
                /\ response' = [status |-> 201,
                                message |-> "Appointment booked successfully",
                                appointment |-> appointment,
                                consultation |-> consultation]

\* GET /:userId/appointments
GetAppointments(userId) ==
    LET userAppointments == SelectSeq(appointments, LAMBDA apt : apt.userId = userId)
        upcoming == SelectSeq(userAppointments,
                              LAMBDA apt : /\ JsGt(SlotHours(apt.slot), now)
                                           /\ apt.status = "confirmed")
    IN  /\ request' = [route |-> "GET /:userId/appointments", userId |-> userId]
        /\ response' = [status |-> 200, total |-> Len(userAppointments),
                        upcoming |-> Len(upcoming)]
        /\ UNCHANGED <<consultVars, today, stores, forumVars>>

CancelRoute == "POST /appointments/:appointmentId/cancel"

\* POST /appointments/:appointmentId/cancel.  After the two status
\* assignments the response is built from appointment.expert.consultationFee
\* (line 794); an appointment has no `expert` property, the read throws a
\* TypeError and the catch block answers.
CancelAppointment(appointmentId) ==
    LET a == FirstIndex(appointments, LAMBDA apt : apt.id = appointmentId)
        c == FirstIndex(consultations, LAMBDA cons : cons.appointmentId = appointmentId)
    IN  /\ request' = [route |-> CancelRoute, appointmentId |-> appointmentId]
        /\ UNCHANGED <<now, experts, today, stores, forumVars>>
        /\ IF a = 0
           THEN /\ response' = [status |-> 404, error |-> "Appointment not found"]
                /\ UNCHANGED <<appointments, consultations>>
           ELSE IF TooLateToCancel(appointments[a].slot, now)
           THEN /\ response' =
                       [status |-> 400,
                        error |-> "Appointments can only be cancelled 24 hours in advance"]
                /\ UNCHANGED <<appointments, consultations>>
           ELSE /\ appointments' = [appointments EXCEPT ![a].status = "cancelled"]
                /\ consultations' = IF c = 0 THEN consultations
                                    ELSE [consultations EXCEPT ![c].status = "cancelled"]
                /\ response' = InternalError

\* Twelve hours pass: no request is handled.
AdvanceClock ==
    /\ now' = now + 12
    /\ request' = NoRequest
    /\ response' = NoResponse
    /\ UNCHANGED <<experts, appointments, consultations, today, stores, forumVars>>

Slots == {"2024-01-02T09:00:00.000Z", "2024-01-03T09:00:00.000Z"}

\* Two users booking one built-in expert on two slots, cancelling, and
\* reading; requests with a missing field and with an unknown expert.
NextConsult ==
    \/ ListExperts
    \/ \E expertId \in {"expert-1", "expert-9"} : ExpertDetails(expertId)
    \/ \E userId \in {"alice", "bob"}, slot \in Slots :
           /\ BookAppointment(userId, "expert-1", slot)
           /\ Len(appointments') <= ConsultAppointments
    \/ \E slot \in Slots : \/ BookAppointment("", "expert-1", slot)
                          \/ BookAppointment("alice", "expert-9", slot)
    \/ \E appointmentId \in 1..(Len(appointments) + 1) : CancelAppointment(appointmentId)
    \/ GetAppointments("alice")
    \/ now < ConsultHours /\ AdvanceClock

SpecConsult == Init /\ [][NextConsult]_vars

(***************************************************************************)
(* Forum: profiles, posts, comments and their counters.  A uuid id is the  *)
(* record's position in its array (no record is removed); 0 stands for an  *)
(* id the request leaves out.  Texts are kept only as far as a handler     *)
(* tests them.                                                             *)
(***************************************************************************)
FindById(records, id) == FirstIndex(records, LAMBDA r : r.id = id)

FindCategory(categories, category) ==
    FirstIndex(categories, LAMBDA cat : cat.id = category)

\* The increment that always lands on the first category.
bumpPostCountFirst(categories, category) ==
    [categories EXCEPT ![1].postCount = @ + 1]

\* categoryObj.postCount += 1
bumpPostCount(categories, category) ==
    [categories EXCEPT ![FindCategory(categories, category)].postCount = @ + 1]

\* POST /users
CreateUser(username, email) ==
    LET existingUser == FirstIndex(userProfiles, LAMBDA user : user.email = email)
        userProfile == [id |-> Len(userProfiles) + 1,
                        username |-> username,
                        email |-> email,
                        stats |-> [posts |-> 0, comments |-> 0,
                                   likes |-> 0, helpful |-> 0]]
    IN  /\ request' = [route |-> "POST /users", email |-> email]
        /\ UNCHANGED <<forumCategories, forumPosts, forumComments,
                       today, stores, consultVars>>
        /\ IF existingUser # 0
           THEN /\ response' = [status |-> 200,
                                message |-> "User profile already exists",
                                user |-> userProfiles[existingUser]]
                /\ UNCHANGED userProfiles
           ELSE /\ userProfiles' = Append(userProfiles, userProfile)
                /\ response' = [status |-> 201,
                                message |-> "User profile created successfully",
                                user |-> userProfile]

PostRoute == "POST /posts"

\* POST /posts
CreatePost(title, content, category, authorId) ==
    /\ request' = [route |-> PostRoute, title |-> title, category |-> category,
                   authorId |-> authorId]
    /\ UNCHANGED <<forumComments, today, stores, consultVars>>
    /\ IF title = "" \/ content = "" \/ category = "" \/ authorId = 0
       THEN /\ response' =
                   [status |-> 400,
                    error |-> "Missing required fields: title, content, category, authorId"]
            /\ UNCHANGED <<forumCategories, forumPosts, userProfiles>>
       ELSE IF FindCategory(forumCategories, category) = 0
       THEN /\ response' = [status |-> 400, error |-> "Invalid category"]
            /\ UNCHANGED <<forumCategories, forumPosts, userProfiles>>
       ELSE IF FindById(userProfiles, authorId) = 0
       THEN /\ response' = [status |-> 400, error |-> "Author not found"]
            /\ UNCHANGED <<forumCategories, forumPosts, userProfiles>>
       ELSE LET author == FindById(userProfiles, authorId)
                post == [id |-> Len(forumPosts) + 1,
                         category |-> category,
                         authorId |-> userProfiles[author].id,
                         stats |-> [views |-> 0, likes |-> 0, comments |-> 0]]
            IN  /\ forumPosts' = Append(forumPosts, post)
                /\ forumCategories' = bumpPostCount(forumCategories, category)
                /\ userProfiles' = [userProfiles EXCEPT ![author].stats.posts = @ + 1]
                /\ response' = [status |-> 201,
                                message |-> "Post created successfully",
                                post |-> post]

\* GET /posts/:postId
GetPost(postId) ==
    LET p == FindById(forumPosts, postId)
    IN  /\ request' = [route |-> "GET /posts/:postId", postId |-> postId]
        /\ UNCHANGED <<forumCategories, forumComments, userProfiles,
                       today, stores, consultVars>>
        /\ IF p = 0
           THEN /\ response' = [status |-> 404, error |-> "Post not found"]
                /\ UNCHANGED forumPosts
           ELSE /\ forumPosts' = [forumPosts EXCEPT ![p].stats.views = @ + 1]
                /\ response' =
                       [status |-> 200,
                        post |-> [forumPosts[p] EXCEPT !.stats.views = @ + 1],
                        total |-> Len(SelectSeq(forumComments,
                                                LAMBDA comment : comment.postId = postId))]

CommentRoute == "POST /posts/:postId/comments"

\* POST /posts/:postId/comments
AddComment(postId, content, authorId, parentCommentId) ==
    /\ request' = [route |-> CommentRoute, postId |-> postId,
                   authorId |-> authorId, parentCommentId |-> parentCommentId]
    /\ UNCHANGED <<forumCategories, today, stores, consultVars>>
    /\ IF content = "" \/ authorId = 0
       THEN /\ response' = [status |-> 400,
                            error |-> "Missing required fields: content, authorId"]
            /\ UNCHANGED <<forumPosts, forumComments, userProfiles>>
       ELSE IF FindById(forumPosts, postId) = 0
       THEN /\ response' = [status |-> 404, error |-> "Post not found"]
            /\ UNCHANGED <<forumPosts, forumComments, userProfiles>>
       ELSE IF FindById(userProfiles, authorId) = 0
       THEN /\ response' = [status |-> 400, error |-> "Author not found"]
            /\ UNCHANGED <<forumPosts, forumComments, userProfiles>>
       ELSE LET p == FindById(forumPosts, postId)
                author == FindById(userProfiles, authorId)
                comment == [id |-> Len(forumComments) + 1,
                            postId |-> postId,
                            parentCommentId |-> parentCommentId,
                            authorId |-> userProfiles[author].id,
                            stats |-> [likes |-> 0, replies |-> 0]]
                pushed == Append(forumComments, comment)
                parentComment == FindById(pushed, parentCommentId)
            IN  /\ forumComments' =
                       IF parentCommentId # 0 /\ parentComment # 0
                       THEN [pushed EXCEPT ![parentComment].stats.replies = @ + 1]
                       ELSE pushed
                /\ forumPosts' = [forumPosts EXCEPT ![p].stats.comments = @ + 1]
                /\ userProfiles' = [userProfiles EXCEPT ![author].stats.comments = @ + 1]
                /\ response' = [status |-> 201,
                                message |-> "Comment added successfully",
                                comment |-> comment]

\* POST /posts/:postId/like
LikePost(postId, userId) ==
    LET p == FindById(forumPosts, postId)
        user == FindById(userProfiles, userId)
    IN  /\ request' = [route |-> "POST /posts/:postId/like", postId |-> postId,
                       userId |-> userId]
        /\ UNCHANGED <<forumCategories, forumComments, today, stores, consultVars>>
        /\ IF p = 0
           THEN /\ response' = [status |-> 404, error |-> "Post not found"]
                /\ UNCHANGED <<forumPosts, userProfiles>>
           ELSE IF user = 0
           THEN /\ response' = [status |-> 200, likes |-> forumPosts[p].stats.likes]
                /\ UNCHANGED <<forumPosts, userProfiles>>
           ELSE /\ forumPosts' = [forumPosts EXCEPT ![p].stats.likes = @ + 1]
                /\ userProfiles' = [userProfiles EXCEPT ![user].stats.likes = @ + 1]
                /\ response' = [status |-> 200,
                                likes |-> forumPosts[p].stats.likes + 1]

\* POST /comments/:commentId/helpful
MarkHelpful(commentId, userId) ==
    LET c == FindById(forumComments, commentId)
        user == FindById(userProfiles, userId)
    IN  /\ request' = [route |-> "POST /comments/:commentId/helpful",
                       commentId |-> commentId, userId |-> userId]
        /\ UNCHANGED <<forumCategories, forumPosts, today, stores, consultVars>>
        /\ IF c = 0
           THEN /\ response' = [status |-> 404, error |-> "Comment not found"]
                /\ UNCHANGED <<forumComments, userProfiles>>
           ELSE IF user = 0
           THEN /\ response' = [status |-> 200,
                                helpfulCount |-> forumComments[c].stats.likes]
                /\ UNCHANGED <<forumComments, userProfiles>>
           ELSE /\ forumComments' = [forumComments EXCEPT ![c].stats.likes = @ + 1]
                /\ userProfiles' = [userProfiles EXCEPT ![user].stats.helpful = @ + 1]
                /\ response' = [status |-> 200,
                                helpfulCount |-> forumComments[c].stats.likes + 1]

\* GET /users/:userId
GetUserProfile(userId) ==
    LET user == FindById(userProfiles, userId)
    IN  /\ request' = [route |-> "GET /users/:userId", userId |-> userId]
        /\ response' =
               IF user = 0
               THEN [status |-> 404, error |-> "User not found"]
               ELSE [status |-> 200,
                     user |-> userProfiles[user],
                     posts |-> Len(SelectSeq(forumPosts,
                                             LAMBDA post : post.authorId = userId)),
                     comments |-> Len(SelectSeq(forumComments,
                                                LAMBDA comment : comment.authorId = userId))]
        /\ UNCHANGED <<forumVars, today, stores, consultVars>>

\* GET /stats
GetStats ==
    /\ request' = [route |-> "GET /stats"]
    /\ response' = [status |-> 200,
                    totalPosts |-> Len(forumPosts),
                    totalComments |-> Len(forumComments),
                    totalUsers |-> Len(userProfiles),
                    categories |-> [i \in 1..Len(forumCategories) |->
                                       forumCategories[i].postCount]]
    /\ UNCHANGED <<forumVars, today, stores, consultVars>>

\* The views, likes and helpful marks given so far.
RECURSIVE SumOver(_, _)
SumOver(records, field) ==
    IF records = <<>> THEN 0
    ELSE records[1].stats[field] + SumOver(Tail(records), field)

Reactions(posts, comments) ==
    SumOver(posts, "views") + SumOver(posts, "likes") + SumOver(comments, "likes")

\* Two members posting in one category, commenting on the latest post and
\* replying to the first comment, reading and reacting; requests with a
\* missing field, an unknown category, author, post or comment.
NextForum ==
    \/ \E email \in {"a@example.org", "b@example.org"} : CreateUser("member", email)
    \/ \E authorId \in 1..2 :
           /\ CreatePost("title", "content", "nutrition", authorId)
           /\ Len(forumPosts') + Len(forumComments') <= ForumRecords
    \/ CreatePost("", "content", "general", 1)
    \/ CreatePost("title", "content", "recipes", 1)
    \/ \E authorId \in 1..2, parentCommentId \in 0..1 :
           /\ AddComment(Len(forumPosts), "content", authorId, parentCommentId)
           /\ Len(forumPosts') + Len(forumComments') <= ForumRecords
    \/ AddComment(1, "", 1, 0)
    \/ /\ GetPost(1)
       /\ Reactions(forumPosts', forumComments') <= ForumReactions
    \/ \E userId \in {1, 3} :
           /\ LikePost(1, userId)
           /\ Reactions(forumPosts', forumComments') <= ForumReactions
    \/ /\ MarkHelpful(1, 1)
       /\ Reactions(forumPosts', forumComments') <= ForumReactions
    \/ GetUserProfile(1)
    \/ GetStats

SpecForum == Init /\ [][NextForum]_vars

(***************************************************************************)
(* Specifications: the same handlers, driven by different request sets.    *)
(***************************************************************************)
\* The reward ids of the redemption requests: one the catalog of the
\* contract holds, one it does not.
RewardIds == {"reward-1", "reward-0"}

UsersOf(keys) == {key[1] : key \in keys}

\* `keys` are the (userId, activityType) pairs of the well-formed log
\* requests, `completeds` the values of their `completed` field.
Requests(keys, completeds, limits, maxDay, maxLogs) ==
    \/ \E key \in keys, completed \in completeds :
           /\ LogActivity(key[1], key[2], completed)
           /\ Len(dailyHabits') <= maxLogs
    \/ \E key \in keys : \/ LogActivity("", key[2], "true")
                         \/ LogActivity(key[1], "", "true")
    \/ \E userId \in UsersOf(keys) : GetStreaks(userId)
    \/ \E userId \in UsersOf(keys) : GetBadges(userId)
    \/ \E limit \in limits : Leaderboard(limit)
    \/ today < maxDay /\ AdvanceDay

Step(keys, completeds, limits, maxDay, maxLogs) ==
    \/ Requests(keys, completeds, limits, maxDay, maxLogs)
    \/ \E userId \in UsersOf(keys), rewardId \in RewardIds : Redeem(userId, rewardId)

\* Two users, an activity type initializeUserStreak creates a counter for
\* (hydration) and one it does not (workout), every value of `completed`.
Next ==
    Step({<<"alice", "workout">>, <<"alice", "hydration">>, <<"2", "workout">>},
         CompletedValues, {10}, MaxDay, MaxLogs)

Spec == Init /\ [][Next]_vars

\* One user, one activity type that initializeUserStreak does not create,
\* a run of days long enough for the 7-day threshold.
NextStreak ==
    Step({<<"alice", "workout">>}, {"true", "false"}, {10}, StreakDays, StreakDays)

SpecStreak == Init /\ [][NextStreak]_vars

\* One user logging the two nutrition activity types.
NextNutrition ==
    Step({"alice"} \X NutritionTypes, {"true"}, {10}, NutritionDays, 2 * NutritionDays)

SpecNutrition == Init /\ [][NextNutrition]_vars

\* Three users earning different amounts (or, two of them, the same amount).
NextBoard ==
    Step({<<"alice", "workout">>, <<"2", "hydration">>, <<"10", "sleep">>,
          <<"10", "hydration">>},
         {"true"}, {2, 10}, BoardDays, BoardLogs)

SpecBoard == Init /\ [][NextBoard]_vars

\* One user completing one activity type on up to fourteen days.
NextFortnight ==
    Step({<<"alice", "workout">>}, {"true"}, {10}, FortnightDays, FortnightDays)

SpecFortnight == Init /\ [][NextFortnight]_vars

\* One user, every activity type of the points table and one it lacks.
NextPoints ==
    Step({"alice"} \X {"healthy-eating", "supplement-consistency", "workout",
                       "hydration", "sleep", "meditation", "fitness"},
         {"true", "false"}, {10}, PointsDays, PointsLogs)

SpecPoints == Init /\ [][NextPoints]_vars

\* One user logging the nutrition activity types until a badge is awarded,
\* a rival logging a workout on the first day only, and leaderboard requests
\* that cut the list or do not.
LogsOf(dh, userId) == SelectSeq(dh, LAMBDA log : log.userId = userId)

NextRanking ==
    \/ \E activityType \in NutritionTypes : LogActivity("alice", activityType, "true")
    \/ today = 1 /\ LogActivity("2", "workout", "true")
    \/ \E limit \in {1, 10} : Leaderboard(limit)
    \/ today < RankingDays /\ AdvanceDay

SpecRanking == Init /\ [][NextRanking]_vars

\* One day on which one user logs six activity types and reads the progress.
NextProgress ==
    \/ \E activityType \in {"healthy-eating", "supplement-consistency", "workout",
                            "hydration", "sleep", "meditation"} :
           /\ LogActivity("alice", activityType, "true")
           /\ Len(dailyHabits') <= ProgressLogs
    \/ GetStreaks("alice")

SpecProgress == Init /\ [][NextProgress]_vars

Redemptions(rh) == SelectSeq(rh, LAMBDA entry : entry.activityType = "")

\* The router with getRewardById in place: one user earning 20 points a day
\* and redeeming.
NextRewards ==
    \/ Requests({<<"alice", "workout">>}, {"true"}, {10}, RewardDays, RewardDays)
    \/ \E rewardId \in RewardIds :
           /\ RedeemWithCatalog("alice", rewardId)
           /\ Len(Redemptions(rewardHistory')) <= RewardRedemptions

SpecRewards == Init /\ [][NextRewards]_vars

(***************************************************************************)
(* Properties.                                                             *)
(***************************************************************************)
LogRoute == "POST /log-activity"
DuplicateError == "Activity already logged for today"

\* The log request of this step was well formed and accepted.
Logged == request.route = LogRoute /\ response.status = 200

StreakOf(userId, activityType) ==
    ObjGet(userStreaks[FindStreak(userStreaks, userId)].streaks, activityType)

LongestOf(userId, activityType) ==
    ObjGet(userStreaks[FindStreak(userStreaks, userId)].longestStreaks, activityType)

\* C1: for every user and every activity type the user has logged, the
\* longest streak is at least the current streak, whether or not the type is
\* one of the five counters a new UserStreak starts with.
C1_LongestAtLeastCurrent ==
    \A i \in 1..Len(dailyHabits) :
        JsGe(LongestOf(dailyHabits[i].userId, dailyHabits[i].activityType),
             StreakOf(dailyHabits[i].userId, dailyHabits[i].activityType))

\* C2: the activity log never holds two entries with the same user, activity
\* type and date.
C2_OneLogPerKey ==
    \A i, j \in 1..Len(dailyHabits) :
        (/\ dailyHabits[i].userId = dailyHabits[j].userId
         /\ dailyHabits[i].activityType = dailyHabits[j].activityType
         /\ dailyHabits[i].date = dailyHabits[j].date) => i = j

\* A duplicate was just rejected for a key that is also logged on an earlier day.
C2_Witness ==
    /\ request.route = LogRoute
    /\ response.status = 400
    /\ response.error = DuplicateError
    /\ \E i, j \in 1..Len(dailyHabits) :
           /\ dailyHabits[i].userId = request.userId
           /\ dailyHabits[j].userId = request.userId
           /\ dailyHabits[i].activityType = request.activityType
           /\ dailyHabits[j].activityType = request.activityType
           /\ dailyHabits[i].date < dailyHabits[j].date
           /\ dailyHabits[j].date = today

\* C3: a well-formed log request for a (user, type) not yet logged today is
\* accepted and appends its log; one for a (user, type) already logged today
\* is rejected as a duplicate and leaves the activity log, the streaks, the
\* badges and the ledger as they were.
C3_DuplicateRejectedUnchanged ==
    [][(/\ request'.route = LogRoute
        /\ request'.userId # ""
        /\ request'.activityType # "")
       => IF \E i \in 1..Len(dailyHabits) :
                 /\ dailyHabits[i].userId = request'.userId
                 /\ dailyHabits[i].activityType = request'.activityType
                 /\ dailyHabits[i].date = today
          THEN /\ response'.status = 400
               /\ response'.error = DuplicateError
               /\ UNCHANGED stores
          ELSE /\ response'.status = 200
               /\ Len(dailyHabits') = Len(dailyHabits) + 1
               /\ SubSeq(dailyHabits', 1, Len(dailyHabits)) = dailyHabits
               /\ dailyHabits'[Len(dailyHabits')].userId = request'.userId
               /\ dailyHabits'[Len(dailyHabits')].activityType = request'.activityType
               /\ dailyHabits'[Len(dailyHabits')].date = today]_vars

\* The second call for a key whose first call earned points was just rejected.
C3_Witness ==
    /\ request.route = LogRoute
    /\ response.status = 400
    /\ response.error = DuplicateError
    /\ \E i \in 1..Len(rewardHistory) :
           /\ rewardHistory[i].userId = request.userId
           /\ rewardHistory[i].activityType = request.activityType
    /\ FindStreak(userStreaks, request.userId) # 0
    /\ StreakOf(request.userId, request.activityType) = 1

\* The dates on which the user has a log of the activity type, and those on
\* which that log is a completion.
LogDates(userId, activityType) ==
    {dailyHabits[i].date : i \in {j \in 1..Len(dailyHabits) :
        /\ dailyHabits[j].userId = userId
        /\ dailyHabits[j].activityType = activityType}}

CompletedDates(userId, activityType) ==
    {dailyHabits[i].date : i \in {j \in 1..Len(dailyHabits) :
        /\ dailyHabits[j].userId = userId
        /\ dailyHabits[j].activityType = activityType
        /\ dailyHabits[j].completed}}

\* The user had logged nothing before the day `first`.
FreshAt(userId, first) ==
    \A i \in 1..Len(dailyHabits) :
        dailyHabits[i].userId = userId => dailyHabits[i].date >= first

BadgesOf(userId) == SelectSeq(userBadges, LAMBDA badge : badge.userId = userId)

\* C4: the badge list never holds two records with the same user and badge id.
C4_OneBadgePerUserAndId ==
    \A i, j \in 1..Len(userBadges) :
        (/\ userBadges[i].userId = userBadges[j].userId
         /\ userBadges[i].badgeId = userBadges[j].badgeId) => i = j

\* The catalog point values of the badges a call returned.
RECURSIVE BadgePoints(_)
BadgePoints(badges) ==
    IF badges = <<>> THEN 0
    ELSE (IF Head(badges) = Null THEN 0 ELSE CatalogPoints(Head(badges).badgeId))
         + BadgePoints(Tail(badges))

\* C5: every accepted log request raises the user's total points by the
\* activity points it returns plus the catalog points of the badges it awards
\* (so the total is always the sum of both over the user's history).
C5_PointsAdditivity ==
    [][(request'.route = LogRoute /\ response'.status = 200)
       => calculateTotalPoints(rewardHistory', request'.userId)
              = calculateTotalPoints(rewardHistory, request'.userId)
                + response'.pointsAwarded
                + BadgePoints(response'.newBadges)]_vars

\* C6: when a fresh user's logs of one activity type are completions on n
\* consecutive days, the streak is n; when they are followed by a
\* completed=false log on the next day, the streak is 0 and the longest
\* streak is n.
C6_StreakContinuity ==
    \A i \in 1..Len(dailyHabits) :
        LET u == dailyHabits[i].userId
            t == dailyHabits[i].activityType
        IN  \A first \in 1..today : \A last \in first..today :
                FreshAt(u, first) =>
                    /\ (/\ LogDates(u, t) = first..last
                        /\ CompletedDates(u, t) = first..last)
                       => StreakOf(u, t) = last - first + 1
                    /\ (/\ LogDates(u, t) = first..(last + 1)
                        /\ CompletedDates(u, t) = first..last)
                       => /\ StreakOf(u, t) = 0
                          /\ LongestOf(u, t) = last - first + 1

SevenDayBadge(userId) ==
    [userId |-> userId, badgeId |-> "7-day-streak",
     points |-> CatalogPoints("7-day-streak")]

\* C7: for a user who logs only 'workout', completed, on consecutive days:
\* the calls of days 1 to 6 create no badge; the call of day 7 creates and
\* returns the '7-day-streak' UserBadge with the catalog points (50), and
\* leaves the streak and the longest streak of 'workout' at 7.
C7_SevenDayWorkoutBadge ==
    (/\ Logged
     /\ request.activityType = "workout"
     /\ \A i \in 1..Len(dailyHabits) :
            dailyHabits[i].userId = request.userId
                => dailyHabits[i].activityType = "workout")
    => \A n \in 1..7 :
           (/\ LogDates(request.userId, "workout") = (today - n + 1)..today
            /\ CompletedDates(request.userId, "workout") = (today - n + 1)..today)
           => IF n < 7
              THEN /\ response.newBadges = <<>>
                   /\ BadgesOf(request.userId) = <<>>
              ELSE /\ response.newBadges = <<SevenDayBadge(request.userId)>>
                   /\ BadgesOf(request.userId) = <<SevenDayBadge(request.userId)>>
                   /\ CatalogPoints("7-day-streak") = 50
                   /\ StreakOf(request.userId, "workout") = 7
                   /\ LongestOf(request.userId, "workout") = 7

\* C8: an accepted log request without `completed` has the effects of the
\* same request with completed=true: the stored log is a completion, the
\* streak record, the ledger and pointsAwarded are those the completion gives,
\* and pointsAwarded is not 0.
C8_OmittedCompletedIsTrue ==
    [][(/\ request'.route = LogRoute
        /\ request'.completed = "undefined"
        /\ response'.status = 200)
       => LET u == request'.userId
              t == request'.activityType
              asTrue == awardPoints(rewardHistory, u, t, "true")
          IN  /\ response'.log.completed = TRUE
              /\ dailyHabits'[Len(dailyHabits')].completed = TRUE
              /\ userStreaks' = updateStreak(userStreaks, dailyHabits', today,
                                             u, t, TRUE).userStreaks
              /\ rewardHistory' = asTrue.rewardHistory
              /\ Len(rewardHistory') = Len(rewardHistory) + 1
              /\ response'.pointsAwarded = asTrue.pointsAwarded
              /\ response'.pointsAwarded # 0]_vars

BoardRoute == "GET /leaderboard"

LedgerUsers == {rewardHistory[i].userId : i \in 1..Len(rewardHistory)}

\* The position of the user's first ledger entry.
FirstEntry(userId) ==
    CHOOSE i \in 1..Len(rewardHistory) :
        /\ rewardHistory[i].userId = userId
        /\ \A j \in 1..(i - 1) : rewardHistory[j].userId # userId

\* C9: the leaderboard lists users in non-increasing order of points, ranked
\* 1, 2, 3, ... in that order, each with the sum of the user's ledger entries
\* as points, no user twice, and every user of the ledger when the limit
\* allows (so users with totals 100, 50, 75 come out as 100, 75, 50).
C9_LeaderboardOrdered ==
    request.route = BoardRoute
    => LET board == response.leaderboard
       IN  /\ \A i, j \in 1..Len(board) :
                  i < j => /\ board[i].points >= board[j].points
                           /\ board[i].userId # board[j].userId
           /\ \A i \in 1..Len(board) :
                  /\ board[i].rank = i
                  /\ board[i].userId \in LedgerUsers
                  /\ board[i].points = calculateTotalPoints(rewardHistory, board[i].userId)
           /\ request.limit >= Cardinality(LedgerUsers)
                  => {board[i].userId : i \in 1..Len(board)} = LedgerUsers

\* Three users whose first ledger entries come in the order highest total,
\* lowest total, middle total are ranked highest, middle, lowest.
C9_Witness ==
    /\ request.route = BoardRoute
    /\ Len(response.leaderboard) = 3
    /\ response.leaderboard[1].points > response.leaderboard[2].points
    /\ response.leaderboard[2].points > response.leaderboard[3].points
    /\ FirstEntry(response.leaderboard[1].userId) < FirstEntry(response.leaderboard[3].userId)
    /\ FirstEntry(response.leaderboard[3].userId) < FirstEntry(response.leaderboard[2].userId)

\* C10: a redemption request for a reward of the catalog by a user whose
\* total points are below the reward's pointsRequired is answered with the
\* insufficient-points error, carrying the required and the current amounts,
\* and appends nothing to the ledger.
C10_InsufficientPointsRejected ==
    [][request'.route = RedeemRoute
       => \A reward \in RewardCatalog :
              (/\ reward.id = request'.rewardId
               /\ calculateTotalPoints(rewardHistory, request'.userId)
                      < reward.pointsRequired)
              => /\ response'.status = 400
                 /\ response'.error = "Insufficient points"
                 /\ response'.required = reward.pointsRequired
                 /\ response'.current
                        = calculateTotalPoints(rewardHistory, request'.userId)
                 /\ rewardHistory' = rewardHistory]_vars

\* C11: a successful redemption lowers the user's total points by the
\* reward's pointsRequired.
C11_RedemptionDebits ==
    [][(request'.route = RedeemRoute /\ response'.status = 200)
       => calculateTotalPoints(rewardHistory', request'.userId)
              = calculateTotalPoints(rewardHistory, request'.userId)
                - response'.redemption.pointsUsed]_vars

\* C12: a redemption request for a reward id the catalog lacks is answered
\* with the not-found error and changes no store.
C12_UnknownRewardNotFound ==
    [][(/\ request'.route = RedeemRoute
        /\ \A reward \in RewardCatalog : reward.id # request'.rewardId)
       => /\ response'.status = 404
          /\ response'.error = "Reward not found"
          /\ UNCHANGED stores]_vars

ValidationError == "Missing required fields: userId, activityType"

\* C13: a log request whose userId or activityType is missing or empty is
\* answered with the validation error and changes no store.
C13_ValidationRejectsUnchanged ==
    [][(/\ request'.route = LogRoute
        /\ (request'.userId = "" \/ request'.activityType = ""))
       => /\ response'.status = 400
          /\ response'.error = ValidationError
          /\ UNCHANGED stores]_vars

\* A request without activityType was just rejected on a server that holds
\* a log, a streak record and a ledger entry of the requesting user.
C13_Witness ==
    /\ request.route = LogRoute
    /\ request.userId # ""
    /\ request.activityType = ""
    /\ response.status = 400
    /\ response.error = ValidationError
    /\ \E i \in 1..Len(dailyHabits) : dailyHabits[i].userId = request.userId
    /\ \E i \in 1..Len(rewardHistory) : rewardHistory[i].userId = request.userId
    /\ FindStreak(userStreaks, request.userId) # 0

SevenDayCount(userId) ==
    Len(SelectSeq(userBadges, LAMBDA badge : /\ badge.userId = userId
                                             /\ badge.badgeId = "7-day-streak"))

ReturnsSevenDay(newBadges) ==
    \E i \in 1..Len(newBadges) :
        newBadges[i] # Null /\ newBadges[i].badgeId = "7-day-streak"

\* C14: while a user completes one activity type on every day from day 1 on,
\* the calls of days 1 to 6 leave the user without a '7-day-streak' badge,
\* the call of day 7 creates and returns it, and the calls of days 8 to 14
\* neither create nor return it again: the user holds exactly one.
C14_SevenDayBadgeOnce ==
    (/\ Logged
     /\ LogDates(request.userId, request.activityType) = 1..today
     /\ CompletedDates(request.userId, request.activityType) = 1..today)
    => /\ SevenDayCount(request.userId) = (IF today >= 7 THEN 1 ELSE 0)
       /\ ReturnsSevenDay(response.newBadges) <=> today = 7

\* The call of day 14 of an unbroken run was just answered.
C14_Witness ==
    /\ Logged
    /\ today = 14
    /\ CompletedDates(request.userId, request.activityType) = 1..14
    /\ SevenDayCount(request.userId) = 1
    /\ response.streakUpdate.currentStreak = 14

\* The (userId, activityType) pairs of the activity log and of the ledger.
LoggedKeys == {<<dailyHabits[i].userId, dailyHabits[i].activityType>> : i \in 1..Len(dailyHabits)}

LedgerKeys ==
    {<<rewardHistory[i].userId, rewardHistory[i].activityType>> :
        i \in {j \in 1..Len(rewardHistory) : rewardHistory[j].activityType # ""}}

CounterIn(us, userId, activityType) ==
    IF FindStreak(us, userId) = 0 THEN Undefined
    ELSE ObjGet(us[FindStreak(us, userId)].streaks, activityType)

LongestIn(us, userId, activityType) ==
    IF FindStreak(us, userId) = 0 THEN Undefined
    ELSE ObjGet(us[FindStreak(us, userId)].longestStreaks, activityType)

\* C16: an accepted log request moves the streak of its user and type to 0
\* when completed is false; when completed is true, to the previous value
\* plus 1 if the user has a completed log of the type dated the previous
\* day, and to 1 if not.
C16_StreakTransitions ==
    [][(request'.route = LogRoute /\ response'.status = 200)
       => LET u == request'.userId
              t == request'.activityType
              before == CounterIn(userStreaks, u, t)
              after == CounterIn(userStreaks', u, t)
              previousDay == \E i \in 1..Len(dailyHabits) :
                                 /\ dailyHabits[i].userId = u
                                 /\ dailyHabits[i].activityType = t
                                 /\ dailyHabits[i].date = today - 1
                                 /\ dailyHabits[i].completed
          IN  /\ request'.completed = "false" => after = 0
              /\ (request'.completed = "true" /\ previousDay)
                     => IsNumber(before) /\ after = before + 1
              /\ (request'.completed = "true" /\ ~previousDay) => after = 1]_vars

\* A third consecutive completion was just logged, after an earlier
\* completed=false log of the same type.
C16_Witness ==
    /\ Logged
    /\ request.completed = "true"
    /\ StreakOf(request.userId, request.activityType) = 3
    /\ \E i \in 1..Len(dailyHabits) :
           /\ dailyHabits[i].userId = request.userId
           /\ dailyHabits[i].activityType = request.activityType
           /\ ~dailyHabits[i].completed
           /\ dailyHabits[i].date = today - 3

\* The number of consecutive days ending at `day` on which the user has a
\* completed log of the type, computed from the whole activity log.
RunLength(userId, activityType, day) ==
    CHOOSE n \in 0..day :
        /\ \A k \in 0..(n - 1) : (day - k) \in CompletedDates(userId, activityType)
        /\ n = day \/ (day - n) \notin CompletedDates(userId, activityType)

\* C17: after every accepted log of user u and type t on day d, the stored
\* streak of (u, t) is the number of consecutive days ending at d on which u
\* has a completed log of t (0 when the log of d is not completed), whatever
\* the pattern of completed, failed and skipped days before.
C17_StreakEqualsRunLength ==
    Logged => StreakOf(request.userId, request.activityType)
                  = RunLength(request.userId, request.activityType, today)

\* A run of two was just logged after a completed day, a failed day and a
\* skipped day.
C17_Witness ==
    /\ Logged
    /\ today = 5
    /\ LogDates(request.userId, request.activityType) = {1, 2, 4, 5}
    /\ CompletedDates(request.userId, request.activityType) = {1, 4, 5}
    /\ StreakOf(request.userId, request.activityType) = 2

\* C18: every accepted log leaves the longest streak of its user and type a
\* number equal to the larger of the longest streak before (0 when there was
\* none) and the new current streak; so it is the largest value the streak
\* has taken and never decreases.
C18_LongestIsHistoricalMax ==
    [][(request'.route = LogRoute /\ response'.status = 200)
       => LET u == request'.userId
              t == request'.activityType
              before == OrZero(LongestIn(userStreaks, u, t))
              current == CounterIn(userStreaks', u, t)
              after == LongestIn(userStreaks', u, t)
          IN  /\ IsNumber(after)
              /\ after = (IF current > before THEN current ELSE before)]_vars

\* The activity types the requests and the initial counters name.
ActivityTypes ==
    {"nutrition", "fitness", "supplements", "hydration", "sleep", "workout"}

\* The streak record of a user, as lazily created when there is none.
RecordIn(us, userId) ==
    IF FindStreak(us, userId) = 0 THEN initializeUserStreak(userId)
    ELSE us[FindStreak(us, userId)]

\* C19: an accepted log request with completed = false answers
\* pointsAwarded = 0, appends nothing to the points ledger, leaves the
\* user's longest streak of every activity type and the current streak of
\* every other type as they were, and sets the streak of its type to 0.
C19_FailedLogFrame ==
    [][(/\ request'.route = LogRoute
        /\ response'.status = 200
        /\ request'.completed = "false")
       => LET u == request'.userId
              before == RecordIn(userStreaks, u)
              after == RecordIn(userStreaks', u)
          IN  /\ response'.pointsAwarded = 0
              /\ rewardHistory' = rewardHistory
              /\ FindStreak(userStreaks', u) # 0
              /\ \A t \in ActivityTypes :
                     /\ ObjGet(after.longestStreaks, t) = ObjGet(before.longestStreaks, t)
                     /\ t # request'.activityType
                            => ObjGet(after.streaks, t) = ObjGet(before.streaks, t)
              /\ ObjGet(after.streaks, request'.activityType) = 0]_vars

\* A completed=false log just reset a streak whose longest value stays 1,
\* for a user who has points.
C19_Witness ==
    /\ Logged
    /\ request.completed = "false"
    /\ response.pointsAwarded = 0
    /\ StreakOf(request.userId, request.activityType) = 0
    /\ LongestOf(request.userId, request.activityType) = 1
    /\ calculateTotalPoints(rewardHistory, request.userId) > 0

\* The fixed point value of an activity type.
FixedPoints(activityType) ==
    CASE activityType = "healthy-eating" -> 10
      [] activityType = "supplement-consistency" -> 15
      [] activityType = "workout" -> 20
      [] activityType = "hydration" -> 5
      [] activityType = "sleep" -> 8
      [] activityType = "meditation" -> 12
      [] OTHER -> 5

\* C20: an accepted log request with completed = true appends exactly one
\* entry to the points ledger, for its user and activity type, with the
\* fixed value of the type (5 for a type the table lacks), and answers
\* pointsAwarded equal to that entry's points.
C20_CompletedLogAwardsFixedPoints ==
    [][(/\ request'.route = LogRoute
        /\ response'.status = 200
        /\ request'.completed = "true")
       => /\ Len(rewardHistory') = Len(rewardHistory) + 1
          /\ SubSeq(rewardHistory', 1, Len(rewardHistory)) = rewardHistory
          /\ LET entry == rewardHistory'[Len(rewardHistory')]
             IN  /\ entry.userId = request'.userId
                 /\ entry.activityType = request'.activityType
                 /\ entry.points = FixedPoints(request'.activityType)
                 /\ response'.pointsAwarded = entry.points]_vars

\* A completed log of a type the table lacks was just answered with 5
\* points, after a log of a type with another value.
C20_Witness ==
    /\ Logged
    /\ request.completed = "true"
    /\ request.activityType = "fitness"
    /\ response.pointsAwarded = 5
    /\ Len(rewardHistory) = 2
    /\ rewardHistory[1].points = 8
    /\ rewardHistory[2] = [userId |-> request.userId, activityType |-> "fitness", points |-> 5]

\* `longer` is `shorter` with entries appended (or nothing appended).
Extends(longer, shorter) ==
    /\ Len(longer) >= Len(shorter)
    /\ SubSeq(longer, 1, Len(shorter)) = shorter

\* C21: every step (a log request, a redemption request, any read) leaves
\* the activity log, the points ledger and the badge list each an extension
\* of its previous value: no entry is modified or removed.
C21_ListsAppendOnly ==
    [][/\ Extends(dailyHabits', dailyHabits)
       /\ Extends(rewardHistory', rewardHistory)
       /\ Extends(userBadges', userBadges)]_vars

\* A log request was just answered that appended to all three lists, each
\* of which already held entries.
C21_Witness ==
    /\ Logged
    /\ Len(response.newBadges) = 1
    /\ Len(userBadges) >= 2
    /\ Len(rewardHistory) >= 2
    /\ Len(dailyHabits) >= 2
    /\ response.pointsAwarded > 0

ReadRoutes == {"GET /:userId/streaks", "GET /:userId/badges", "GET /leaderboard"}

\* C22: a read request (streaks, badges, leaderboard) leaves userStreaks,
\* userBadges, the points ledger and the activity log unchanged, so that a
\* user has a UserStreak record only after logging an activity, and never
\* two.
C22_ReadsArePure ==
    [][request'.route \in ReadRoutes
       => /\ UNCHANGED stores
          /\ \A i \in 1..Len(userStreaks') :
                 /\ \E j \in 1..Len(dailyHabits') :
                        dailyHabits'[j].userId = userStreaks'[i].userId
                 /\ \A k \in 1..Len(userStreaks') :
                        userStreaks'[k].userId = userStreaks'[i].userId => k = i]_vars

\* C23: the leaderboard holds min(limit, number of users of the ledger)
\* entries, ranked 1..n in output order; no user left out has a total above
\* that of a user listed; each entry's badge count is the number of the
\* user's UserBadge records.
C23_LeaderboardShape ==
    request.route = BoardRoute
    => LET board == response.leaderboard
           users == Cardinality(LedgerUsers)
           listed == {board[i].userId : i \in 1..Len(board)}
       IN  /\ Len(board) = (IF request.limit < users THEN request.limit ELSE users)
           /\ \A i \in 1..Len(board) :
                  /\ board[i].rank = i
                  /\ board[i].badges = Len(BadgesOf(board[i].userId))
                  /\ \A userId \in LedgerUsers \ listed :
                         calculateTotalPoints(rewardHistory, userId) <= board[i].points

\* A leaderboard of one entry was just returned: the user listed holds
\* badges, the user left out has points.
C23_Witness ==
    /\ request.route = BoardRoute
    /\ request.limit = 1
    /\ Len(response.leaderboard) = 1
    /\ response.leaderboard[1].badges >= 2
    /\ \E userId \in LedgerUsers :
           /\ userId # response.leaderboard[1].userId
           /\ calculateTotalPoints(rewardHistory, userId) > 0

\* C24: two users of the leaderboard with equal totals are listed in the
\* order of their first entries in the ledger, whatever their identifiers.
C24_TiesInLedgerOrder ==
    request.route = BoardRoute
    => LET board == response.leaderboard
       IN  \A i, j \in 1..Len(board) :
               (i < j /\ board[i].points = board[j].points)
                   => FirstEntry(board[i].userId) < FirstEntry(board[j].userId)

StreaksRoute == "GET /:userId/streaks"

\* C25: the progress a streak lookup returns is a fraction of its target:
\* today's completed count is at most its total of 5, the week's at most
\* its total of 35, and both percentages lie within 0..100.
C25_ProgressWithinTarget ==
    request.route = StreaksRoute
    => /\ response.todayProgress.total = 5
       /\ response.todayProgress.completed <= response.todayProgress.total
       /\ response.todayProgress.percentage \in 0..100
       /\ response.weeklyProgress.total = 35
       /\ response.weeklyProgress.completed <= response.weeklyProgress.total
       /\ response.weeklyProgress.percentage \in 0..100

\* The user identifiers of the requests.
UserIds == {"alice", "2", "10"}

Live(apt) == apt.status # "cancelled"

\* C27: after every step there is at most one appointment that is not
\* cancelled per expert and slot; a booking request for a slot that such an
\* appointment holds is rejected and adds neither an appointment nor a
\* consultation.
C27_NoDoubleBooking ==
    [][/\ \A i, j \in 1..Len(appointments') :
              (/\ Live(appointments'[i])
               /\ Live(appointments'[j])
               /\ appointments'[i].expertId = appointments'[j].expertId
               /\ appointments'[i].slot = appointments'[j].slot) => i = j
       /\ (/\ request'.route = BookRoute
           /\ \E i \in 1..Len(appointments) :
                  /\ Live(appointments[i])
                  /\ appointments[i].expertId = request'.expertId
                  /\ appointments[i].slot = request'.slot)
          => /\ response'.status = 400
             /\ UNCHANGED <<appointments, consultations>>]_vars

\* A booking was just rejected for a slot that holds a cancelled
\* appointment and, booked after the cancellation, a confirmed one.
C27_Witness ==
    /\ request.route = BookRoute
    /\ response.status = 400
    /\ response.error = "Selected slot is no longer available"
    /\ \E i, j \in 1..Len(appointments) :
           /\ i < j
           /\ ~Live(appointments[i])
           /\ Live(appointments[j])
           /\ appointments[i].expertId = request.expertId
           /\ appointments[j].expertId = request.expertId
           /\ appointments[i].slot = request.slot
           /\ appointments[j].slot = request.slot

\* C28: a cancel request answered with an error (404, 400 or 500) leaves
\* the statuses of the appointments and of the consultations unchanged, and
\* a cancel request that sets an appointment to cancelled is answered with
\* the success response.
C28_CancelAllOrNothing ==
    [][request'.route = CancelRoute
       => /\ response'.status \in {404, 400, 500}
              => appointments' = appointments /\ consultations' = consultations
          /\ (\E i \in 1..Len(appointments) :
                  Live(appointments[i]) /\ ~Live(appointments'[i]))
              => response'.status = 200]_vars

BuiltInExperts == {"expert-1", "expert-2", "expert-3"}

\* C29: a booking request with its three fields, for a built-in expert and
\* a slot that no live appointment of the expert holds, succeeds, whatever
\* requests were served before it.
C29_BuiltInExpertBookable ==
    [][(/\ request'.route = BookRoute
        /\ request'.userId # ""
        /\ request'.slot # ""
        /\ request'.expertId \in BuiltInExperts
        /\ \A i \in 1..Len(appointments) :
               ~(/\ Live(appointments[i])
                 /\ appointments[i].expertId = request'.expertId
                 /\ appointments[i].slot = request'.slot))
       => response'.status = 201]_vars

Count(records, Test(_)) == Len(SelectSeq(records, Test))

\* C30: in every state each category's postCount is the number of posts of
\* the category, each post's stats.comments the number of comments stored
\* for the post, and each user's stats.posts and stats.comments the numbers
\* of posts and of comments the user authored.
C30_ForumCountersAgree ==
    /\ \A i \in 1..Len(forumCategories) :
           forumCategories[i].postCount
               = Count(forumPosts, LAMBDA post : post.category = forumCategories[i].id)
    /\ \A i \in 1..Len(forumPosts) :
           forumPosts[i].stats.comments
               = Count(forumComments, LAMBDA comment : comment.postId = forumPosts[i].id)
    /\ \A i \in 1..Len(userProfiles) :
           /\ userProfiles[i].stats.posts
                  = Count(forumPosts, LAMBDA post : post.authorId = userProfiles[i].id)
           /\ userProfiles[i].stats.comments
                  = Count(forumComments,
                          LAMBDA comment : comment.authorId = userProfiles[i].id)

\* Two members have each written a post in the second category, and the
\* second post has a comment and a reply to it by different members.
C30_Witness ==
    /\ Len(userProfiles) = 2
    /\ Len(forumPosts) = 2
    /\ forumPosts[1].authorId # forumPosts[2].authorId
    /\ forumCategories[2].postCount = 2
    /\ forumPosts[2].stats.comments = 2
    /\ Len(forumComments) = 2
    /\ forumComments[2].parentCommentId = 1
    /\ forumComments[1].stats.replies = 1
    /\ userProfiles[1].stats.comments = 1
    /\ userProfiles[2].stats.comments = 1

=============================================================================
